---- MODULE Spec2Model ----
(***************************************************************************)
(* Model of derp/derphttp/derphttp_client.go: the DERP-over-HTTP Client,   *)
(* its lazy connect (dial, HTTP upgrade handshake, derp.NewClient), Send,  *)
(* Recv, Close and the internal close() teardown, run by concurrent        *)
(* goroutines.  The two mutexes, the closed channel and every goroutine's  *)
(* locals are state; a step of the model is a statement group of the       *)
(* source that reads or writes state another goroutine can see.            *)
(***************************************************************************)
EXTENDS Naturals, Integers, Sequences, FiniteSets, TLC

\* ---- bounds ----
NumThreads == 2   \* goroutines calling into one Client
MaxDials == 2     \* raw transports the dialer may open in one run
MaxCalls == 3     \* calls (Connect/Send/Recv/Close) started in one run

Threads == 1..NumThreads
Conns == 1..MaxDials

\* ---- error values ----
\* errors are sequences of strings; nil is the empty sequence
Nil == <<>>
ErrClientClosed == <<"derphttp.Client closed">>
DialErr == <<"dial">>
NewRequestErr == <<"http.NewRequest">>
WriteErr == <<"req.Write">>
FlushErr == <<"conn.Flush">>
ReadResponseErr == <<"http.ReadResponse">>
GetFailedErr == <<"GET failed", "<nil>", "body">>
NewClientErr == <<"derp.NewClient">>
SendErr == <<"derp.Client.Send">>
RecvErr == <<"derp.Client.Recv">>

\* ---- the server URL and the dial address ----
\* strings are sequences of tokens; a URL is its scheme, host name and port
\* ("" when the URL gives none)
Schemes == {"https", "http", "ws"}
Hosts == {"relay.example", "derp.test", "localhost", "10.0.0.1", "[::1]"}
Ports == {"", "443", "80", "8443"}
Urls == [scheme : Schemes, host : Hosts, port : Ports]
DefaultURL == [scheme |-> "https", host |-> "relay.example", port |-> ""]

\* url.URL.Host: "host" or "host:port"
HostField(u) == IF u.port = "" THEN <<u.host>> ELSE <<u.host, ":", u.port>>

\* url.URL.Port()
Port(u) == u.port

\* the string contains a colon
HasColon(h) == \E i \in 1..Len(h) : h[i] \in {":", "[::1]"}

\* net.JoinHostPort: a host containing a colon is put in brackets
JoinHostPort(h, p) ==
  IF HasColon(h) THEN <<"[">> \o h \o <<"]", ":", p>> ELSE h \o <<":", p>>

\* the address connect dials: for https the Host field joined with the port
\* (443 when Port() is empty), else the Host field
DialAddress(u) ==
  IF u.scheme = "https"
  THEN JoinHostPort(HostField(u), IF Port(u) = "" THEN "443" ELSE Port(u))
  ELSE HostField(u)

\* the dialer accepts only "host:port" with host a name, an IPv4 address or
\* a bracketed IPv6 address
Dialable(a) == Len(a) = 3 /\ a[2] = ":"

\* the caller string each public operation hands to connect
Caller(o) == <<"derphttp.Client." \o o>>

\* the deferred func of connect: err = fmt.Errorf("%s connect: %v", caller, err)
WrapErr(o, e) == Caller(o) \o <<"connect">> \o e

VARIABLES
  closed,        \* c.closed is a closed channel
  crashed,       \* the process panicked (close of a closed channel)
  netConn,       \* c.netConn: 0 is nil, else the id of a raw transport
  client,        \* c.client: 0 is nil, else the session (named by its transport)
  resp,          \* c.resp: 0 is nil, else the response read on that transport
  clientMu,      \* owner of c.clientMu, 0 when free
  netConnMu,     \* owner of c.netConnMu, 0 when free
  conn,          \* state of every raw transport: "none", "open", "closed"
  dials,         \* raw transports opened so far
  pc,            \* position of every goroutine
  op,            \* the public operation a goroutine is running
  err,           \* connect's named result err
  cli,           \* the session connect returned to Send/Recv/Connect
  dialed,        \* connect's local netConn
  xconn,         \* close()'s local netConn
  primErr,       \* what client.Send / client.Recv returned
  ret,           \* the error the public operation returned
  \* ---- observers: history of the run, read by the properties only ----
  calls,         \* calls started so far
  raceOnly,      \* so far every call is a Connect and no step has failed
  nDial,         \* dials started by the current call of a goroutine
  nPrim,         \* send/receive primitive invocations of the current call
  nClose,        \* close() teardowns completed by the current call
  solo,          \* no other call overlapped the current call so far (what
                 \* preSess, touched and prevFail record of a call is dropped
                 \* when another call overlaps it)
  fault,         \* a step of the current call failed
  preClosed,     \* c.closed was closed when the current call started
  preSess,       \* c.client when the current solo call started
  touched,       \* handles, transports or closed changed during the solo call
  lastFail,      \* session whose send/receive failed in the call that returned
                 \* last, else 0
  prevFail,      \* lastFail when the current solo call started
  ctxDone,       \* the ctx a Connect was called with is already cancelled
                 \* (Send and Recv pass context.TODO(), which never is)
  url,           \* c.url: the parsed server URL (scheme, host name, port)
  addr,          \* the address handed to tls.Dial / net.Dial last (Nil: none yet)
  caught         \* the transport of the connection attempt that was in progress
                 \* when c.closed was closed (0: no attempt was in progress)

shared == <<closed, crashed, netConn, client, resp, clientMu, netConnMu, conn, dials>>
locals == <<pc, op, err, cli, dialed, xconn, primErr, ret>>
counters == <<nDial, nPrim, nClose>>
observers == <<calls, raceOnly, counters, solo, fault, preClosed, preSess,
               touched, lastFail, prevFail>>
\* state added to the frame of every step that does not write it
extra == <<ctxDone, url, addr, caught>>
vars == <<shared, locals, observers, extra>>

Active(t) == pc[t] \notin {"idle", "done"}

\* no call is in progress
Quiet == \A t \in Threads : ~Active(t)

\* no call is at its return point
NoneReturning == \A t \in Threads : pc[t] # "done"

\* goroutine t is at program point p and may take its next step: a panic ends
\* the process, and a call at its return point leaves before any goroutine
\* takes another step (leaving touches nothing another goroutine reads)
At(t, p) == ~crashed /\ NoneReturning /\ pc[t] = p

\* NewClient: lazily connecting client, nothing dialed, closed channel open
\* the Client NewClient returns, whatever its URL
Start ==
  /\ closed = FALSE
  /\ crashed = FALSE
  /\ netConn = 0
  /\ client = 0
  /\ resp = 0
  /\ clientMu = 0
  /\ netConnMu = 0
  /\ conn = [k \in Conns |-> "none"]
  /\ dials = 0
  /\ pc = [t \in Threads |-> "idle"]
  /\ op = [t \in Threads |-> "none"]
  /\ err = [t \in Threads |-> Nil]
  /\ cli = [t \in Threads |-> 0]
  /\ dialed = [t \in Threads |-> 0]
  /\ xconn = [t \in Threads |-> 0]
  /\ primErr = [t \in Threads |-> Nil]
  /\ ret = [t \in Threads |-> Nil]
  /\ calls = 0
  /\ raceOnly = TRUE
  /\ nDial = [t \in Threads |-> 0]
  /\ nPrim = [t \in Threads |-> 0]
  /\ nClose = [t \in Threads |-> 0]
  /\ solo = [t \in Threads |-> TRUE]
  /\ fault = [t \in Threads |-> FALSE]
  /\ preClosed = [t \in Threads |-> FALSE]
  /\ preSess = [t \in Threads |-> 0]
  /\ touched = [t \in Threads |-> FALSE]
  /\ lastFail = 0
  /\ prevFail = [t \in Threads |-> 0]
  /\ ctxDone = [t \in Threads |-> FALSE]
  /\ caught = 0
  /\ addr = Nil

Init == Start /\ url = DefaultURL


\* ---- helpers ----

\* the program points of one dial/handshake sequence
Connecting(t) ==
  pc[t] \in {"c_dial", "c_setlock", "c_set", "c_flush", "c_read", "c_new", "c_defer"}

\* stands for the transport of an attempt that is still inside tls.Dial /
\* net.Dial: it has no net.Conn yet
Dialing == -1

\* the transport of the connection attempt in progress: the one it dialed,
\* Dialing while it is still inside the dial, 0 when no attempt is in
\* progress or its dial failed
AttemptConn ==
  IF \E u \in Threads : Connecting(u)
  THEN LET u == CHOOSE v \in Threads : Connecting(v)
       IN IF pc[u] = "c_dial" THEN Dialing ELSE dialed[u]
  ELSE 0

\* what a goroutine other than the one stepping can see of the Client
Visible == <<closed, netConn, client, resp, conn>>

\* every call in progress sees the change this step makes, if it makes one
Touch ==
  touched' = [u \in Threads |->
                touched[u] \/ (Active(u) /\ solo[u] /\ Visible' # Visible)]

\* a goroutine enters public operation o at program point p.  Idle goroutines
\* are interchangeable (they hold no state), so the call is given to the
\* lowest-numbered idle one.
Begin(t, o, p) ==
  /\ At(t, "idle")
  /\ \A u \in Threads : u < t => pc[u] # "idle"
  /\ calls < MaxCalls
  /\ calls' = calls + 1
  /\ raceOnly' = (raceOnly /\ o = "Connect")
  /\ pc' = [pc EXCEPT ![t] = p]
  /\ op' = [op EXCEPT ![t] = o]
  /\ solo' = [u \in Threads |-> IF u = t THEN Quiet ELSE ~Active(u)]
  /\ preClosed' = [preClosed EXCEPT ![t] = closed]
  /\ preSess' = [u \in Threads |-> IF u = t /\ Quiet THEN client ELSE 0]
  /\ touched' = [u \in Threads |-> FALSE]
  /\ prevFail' = [u \in Threads |-> IF u = t /\ Quiet THEN lastFail ELSE 0]
  /\ UNCHANGED <<shared, err, cli, dialed, xconn, primErr, ret, counters, fault,
                 lastFail, caught, url, addr>>

\* the public operation of t returns r to its caller; pe is what the
\* session's primitive returned to it (Nil when it was not reached)
Finish(t, r, pe) ==
  /\ pc' = [pc EXCEPT ![t] = "done"]
  /\ ret' = [ret EXCEPT ![t] = r]
  /\ lastFail' = IF pe # Nil THEN cli[t] ELSE 0

\* sync.Mutex.Lock returns only when the mutex is free
CanLock_always(mu) == TRUE
CanLock(mu) == mu = 0

\* select { case <-c.closed: ...; default: } takes the first case iff closed
ChanClosed_never(c) == FALSE
ChanClosed(c) == c

\* if c.client != nil
HasSession_never(c) == FALSE
HasSession(c) == c # 0

\* what Send returns after client.Send: the outer err, which the
\* "if err := client.Send(...)" statement shadows and never assigns
SendResult(outerErr, sendErr) == outerErr

\* what Recv returns: "m, err := client.Recv(b)" assigns the outer err
RecvResult_outer(outerErr, recvErr) == outerErr
RecvResult(outerErr, recvErr) == recvErr

\* Send and Recv call c.close() iff the primitive returned an error
TearsDown_never(e) == FALSE
TearsDown(e) == e # Nil

\* the deferred func of connect closes its local netConn iff err != nil
\* and netConn != nil
DeferredCloses_never(e, nc) == FALSE
DeferredCloses(e, nc) == e # Nil /\ nc # 0

\* net.Conn.Close on transport k (0 is a nil conn: nothing to close)
CloseConn(k) == IF k = 0 THEN conn ELSE [conn EXCEPT ![k] = "closed"]

\* reads and writes on a closed transport fail
Usable(k) == conn[k] = "open"

\* connect returned e to the public operation of t: Connect returns e;
\* Send and Recv return e when it is an error and else go on to the primitive
AfterConnect(t, e) ==
  IF op[t] = "Connect" \/ e # Nil
  THEN Finish(t, e, Nil)
  ELSE /\ pc' = [pc EXCEPT ![t] = "prim"]
       /\ UNCHANGED <<ret, lastFail>>

\* a step of connect fails with e: return nil, e (the deferred funcs run next)
StageFail(t, e) ==
  /\ err' = [err EXCEPT ![t] = e]
  /\ pc' = [pc EXCEPT ![t] = "c_defer"]
  /\ fault' = [fault EXCEPT ![t] = TRUE]
  /\ raceOnly' = FALSE

StageOK(t, next) ==
  /\ pc' = [pc EXCEPT ![t] = next]
  /\ UNCHANGED <<err, fault, raceOnly>>

\* what a handshake step leaves alone: it touches only err and pc
HandshakeFrame ==
  /\ UNCHANGED <<shared, op, cli, dialed, xconn, primErr, ret, calls, counters, solo,
              preClosed, preSess, touched, lastFail, prevFail>>
  /\ UNCHANGED extra

\* ---- public entry points ----
\* the ctx argument of a call: Connect is handed the caller's ctx, which
\* may already be cancelled; Send and Recv hand connect context.TODO()
WithCtx(t, done) == ctxDone' = [ctxDone EXCEPT ![t] = done]

Connect(t) == \E done \in BOOLEAN : Begin(t, "Connect", "c_chk") /\ WithCtx(t, done)
Send(t) == Begin(t, "Send", "c_chk") /\ WithCtx(t, FALSE)
Recv(t) == Begin(t, "Recv", "c_chk") /\ WithCtx(t, FALSE)
Close(t) == Begin(t, "Close", "cl_chk") /\ WithCtx(t, FALSE)

\* ---- connect ----

\* select on c.closed before taking any lock
ConnectCheckClosed(t) ==
  /\ At(t, "c_chk")
  /\ IF ChanClosed(closed)
     THEN AfterConnect(t, ErrClientClosed)
     ELSE /\ pc' = [pc EXCEPT ![t] = "c_lock"]
          /\ UNCHANGED <<ret, lastFail>>
  /\ UNCHANGED <<shared, op, err, cli, dialed, xconn, primErr, calls, raceOnly,
                 counters, solo, fault, preClosed, preSess, touched, prevFail>>
  /\ UNCHANGED extra

\* c.clientMu.Lock(); defer c.clientMu.Unlock();
\* if c.client != nil { return c.client, nil }
ConnectLock(t) ==
  /\ At(t, "c_lock")
  /\ CanLock(clientMu)
  /\ clientMu' = t
  /\ IF HasSession(client)
     THEN /\ cli' = [cli EXCEPT ![t] = client]
          /\ pc' = [pc EXCEPT ![t] = "c_unlock"]
     ELSE /\ pc' = [pc EXCEPT ![t] = "c_dial"]
          /\ UNCHANGED cli
  /\ UNCHANGED <<closed, crashed, netConn, client, resp, netConnMu, conn, dials,
                 op, err, dialed, xconn, primErr, ret, observers>>
  /\ UNCHANGED extra

\* tls.Dial / net.Dial: opens a new raw transport or fails
Dial(t) ==
  /\ At(t, "c_dial")
  /\ nDial' = [nDial EXCEPT ![t] = @ + 1]
  /\ addr' = DialAddress(url)
  /\ \/ /\ dials < MaxDials
        /\ Dialable(DialAddress(url))
        /\ dials' = dials + 1
        /\ conn' = [conn EXCEPT ![dials + 1] = "open"]
        /\ dialed' = [dialed EXCEPT ![t] = dials + 1]
        /\ caught' = IF caught = Dialing THEN dials + 1 ELSE caught
        /\ StageOK(t, "c_setlock")
     \/ /\ StageFail(t, DialErr)
        /\ caught' = IF caught = Dialing THEN 0 ELSE caught
        /\ UNCHANGED <<dials, conn, dialed>>
  /\ UNCHANGED <<ctxDone, url>>
  /\ UNCHANGED <<closed, crashed, netConn, client, resp, clientMu, netConnMu,
                 op, cli, xconn, primErr, ret, calls, nPrim, nClose, solo,
                 preClosed, preSess, lastFail, prevFail>>
  /\ Touch

\* c.netConnMu.Lock()
SetNetConnLock(t) ==
  /\ At(t, "c_setlock")
  /\ CanLock(netConnMu)
  /\ netConnMu' = t
  /\ pc' = [pc EXCEPT ![t] = "c_set"]
  /\ UNCHANGED <<closed, crashed, netConn, client, resp, clientMu, conn, dials,
                 op, err, cli, dialed, xconn, primErr, ret, observers>>
  /\ UNCHANGED extra

\* c.netConn = netConn; c.netConnMu.Unlock()
SetNetConn(t) ==
  /\ At(t, "c_set")
  /\ netConn' = dialed[t]
  /\ netConnMu' = 0
  /\ pc' = [pc EXCEPT ![t] = "c_flush"]
  /\ UNCHANGED <<closed, crashed, client, resp, clientMu, conn, dials,
                 op, err, cli, dialed, xconn, primErr, ret, calls, raceOnly,
                 counters, solo, fault, preClosed, preSess, lastFail, prevFail>>
  /\ Touch
  /\ UNCHANGED extra

\* req, err := http.NewRequest("GET", c.url.String(), nil) returns an error
NewRequestFails(t) ==
  /\ At(t, "c_flush")
  /\ StageFail(t, NewRequestErr)
  /\ HandshakeFrame

\* req.Write(conn), which writes into the bufio writer, returns an error
WriteRequestFails(t) ==
  /\ At(t, "c_flush")
  /\ StageFail(t, WriteErr)
  /\ HandshakeFrame

\* the request is built and buffered; conn.Flush() writes it to the transport
Flush(t) ==
  /\ At(t, "c_flush")
  /\ ((Usable(dialed[t]) /\ StageOK(t, "c_read")) \/ StageFail(t, FlushErr))
  /\ HandshakeFrame

\* http.ReadResponse(conn.Reader, req): reads from the transport
ReadResponse(t) ==
  /\ At(t, "c_read")
  /\ ((Usable(dialed[t]) /\ StageOK(t, "c_new")) \/ StageFail(t, ReadResponseErr))
  /\ HandshakeFrame

\* resp.StatusCode != http.StatusSwitchingProtocols:
\* return nil, fmt.Errorf("GET failed: %v: %s", err, b)
StatusRejected(t) ==
  /\ At(t, "c_new")
  /\ StageFail(t, GetFailedErr)
  /\ HandshakeFrame

\* derp.NewClient(c.privateKey, netConn, conn, c.logf) returns an error
NewDerpClientFails(t) ==
  /\ At(t, "c_new")
  /\ StageFail(t, NewClientErr)
  /\ HandshakeFrame

\* status 101 and derp.NewClient succeeded:
\* c.resp = resp; c.client = derpClient; return c.client, nil
Install(t) ==
  /\ At(t, "c_new")
  /\ resp' = dialed[t]
  /\ client' = dialed[t]
  /\ cli' = [cli EXCEPT ![t] = dialed[t]]
  /\ pc' = [pc EXCEPT ![t] = "c_unlock"]
  /\ UNCHANGED <<closed, crashed, netConn, clientMu, netConnMu, conn, dials,
                 op, err, dialed, xconn, primErr, ret, calls, raceOnly,
                 counters, solo, fault, preClosed, preSess, lastFail, prevFail>>
  /\ Touch
  /\ UNCHANGED extra

\* the deferred func: wrap err and close the local netConn
DeferredClose(t) ==
  /\ At(t, "c_defer")
  /\ conn' = IF DeferredCloses(err[t], dialed[t]) THEN CloseConn(dialed[t]) ELSE conn
  /\ err' = [err EXCEPT ![t] = WrapErr(op[t], err[t])]
  /\ pc' = [pc EXCEPT ![t] = "c_unlock"]
  /\ UNCHANGED <<closed, crashed, netConn, client, resp, clientMu, netConnMu, dials,
                 op, cli, dialed, xconn, primErr, ret, calls, raceOnly,
                 counters, solo, fault, preClosed, preSess, lastFail, prevFail>>
  /\ Touch
  /\ UNCHANGED extra

\* connect returns to its caller with c.clientMu still locked
ConnectReturn_held(t) ==
  /\ At(t, "c_unlock")
  /\ AfterConnect(t, err[t])
  /\ err' = [err EXCEPT ![t] = Nil]
  /\ dialed' = [dialed EXCEPT ![t] = 0]
  /\ UNCHANGED <<shared, op, cli, xconn, primErr, calls, raceOnly,
                 counters, solo, fault, preClosed, preSess, touched, prevFail>>
  /\ UNCHANGED extra

\* the deferred c.clientMu.Unlock(), and connect returns to its caller
ConnectReturn(t) ==
  /\ At(t, "c_unlock")
  /\ clientMu' = 0
  /\ AfterConnect(t, err[t])
  /\ err' = [err EXCEPT ![t] = Nil]
  /\ dialed' = [dialed EXCEPT ![t] = 0]
  /\ UNCHANGED <<closed, crashed, netConn, client, resp, netConnMu, conn, dials,
                 op, cli, xconn, primErr, calls, raceOnly,
                 counters, solo, fault, preClosed, preSess, touched, prevFail>>
  /\ UNCHANGED extra

\* ---- Send / Recv after connect returned a session ----

\* what the public operation returns once the primitive returned pe (and,
\* for Close, once close() returned)
Result(o, outerErr, pe) ==
  CASE o = "Send" -> SendResult(outerErr, pe)
    [] o = "Recv" -> RecvResult(outerErr, pe)
    [] OTHER -> Nil

\* the session's primitive returned e to Send or Recv
AfterPrim(t, e) ==
  /\ primErr' = [primErr EXCEPT ![t] = e]
  /\ nPrim' = [nPrim EXCEPT ![t] = @ + 1]
  /\ fault' = [fault EXCEPT ![t] = (@ \/ e # Nil)]
  /\ raceOnly' = (raceOnly /\ e = Nil)
  /\ IF TearsDown(e)
     THEN /\ pc' = [pc EXCEPT ![t] = "x_lock1"]
          /\ UNCHANGED <<ret, lastFail>>
     ELSE Finish(t, Result(op[t], err[t], e), e)
  /\ UNCHANGED <<shared, op, err, cli, dialed, xconn, calls, nDial, nClose, solo,
                 preClosed, preSess, touched, prevFail>>
  /\ UNCHANGED extra

\* if err := client.Send(dstKey, b); err != nil { c.close() }; return err
SendPrim(t) ==
  /\ At(t, "prim")
  /\ op[t] = "Send"
  /\ \/ (Usable(cli[t]) /\ AfterPrim(t, Nil))
     \/ AfterPrim(t, SendErr)

\* m, err := client.Recv(b); if err != nil { c.close() }; return m, err
RecvPrim(t) ==
  /\ At(t, "prim")
  /\ op[t] = "Recv"
  /\ \/ (Usable(cli[t]) /\ AfterPrim(t, Nil))
     \/ AfterPrim(t, RecvErr)

\* ---- Close ----

\* select on c.closed: return ErrClientClosed when already closed
CloseCheckClosed(t) ==
  /\ At(t, "cl_chk")
  /\ IF ChanClosed(closed)
     THEN Finish(t, ErrClientClosed, Nil)
     ELSE /\ pc' = [pc EXCEPT ![t] = "cl_close"]
          /\ UNCHANGED <<ret, lastFail>>
  /\ UNCHANGED <<shared, op, err, cli, dialed, xconn, primErr, calls, raceOnly,
                 counters, solo, fault, preClosed, preSess, touched, prevFail>>
  /\ UNCHANGED extra

\* close(c.closed): closing a closed channel panics
CloseChan(t) ==
  /\ At(t, "cl_close")
  /\ IF closed
     THEN crashed' = TRUE /\ UNCHANGED <<closed, caught>>
     ELSE closed' = TRUE /\ caught' = AttemptConn /\ UNCHANGED crashed
  /\ pc' = [pc EXCEPT ![t] = "x_lock1"]
  /\ UNCHANGED <<ctxDone, url, addr>>
  /\ UNCHANGED <<netConn, client, resp, clientMu, netConnMu, conn, dials,
                 op, err, cli, dialed, xconn, primErr, ret, calls, raceOnly,
                 counters, solo, fault, preClosed, preSess, lastFail, prevFail>>
  /\ Touch

\* ---- close(), the teardown ----

\* c.netConnMu.Lock()
closeLockNetConn(t) ==
  /\ At(t, "x_lock1")
  /\ CanLock(netConnMu)
  /\ netConnMu' = t
  /\ pc' = [pc EXCEPT ![t] = "x_read"]
  /\ UNCHANGED <<closed, crashed, netConn, client, resp, clientMu, conn, dials,
                 op, err, cli, dialed, xconn, primErr, ret, observers>>
  /\ UNCHANGED extra

\* close() reads c.netConn and keeps c.netConnMu locked
closeReadNetConn_held(t) ==
  /\ At(t, "x_read")
  /\ xconn' = [xconn EXCEPT ![t] = netConn]
  /\ pc' = [pc EXCEPT ![t] = "x_close"]
  /\ UNCHANGED <<shared, op, err, cli, dialed, primErr, ret, observers>>
  /\ UNCHANGED extra

\* netConn := c.netConn; c.netConnMu.Unlock()
closeReadNetConn(t) ==
  /\ At(t, "x_read")
  /\ xconn' = [xconn EXCEPT ![t] = netConn]
  /\ netConnMu' = 0
  /\ pc' = [pc EXCEPT ![t] = "x_close"]
  /\ UNCHANGED <<closed, crashed, netConn, client, resp, clientMu, conn, dials,
                 op, err, cli, dialed, primErr, ret, observers>>
  /\ UNCHANGED extra

\* if netConn != nil { netConn.Close() }
closeNetConn(t) ==
  /\ At(t, "x_close")
  /\ conn' = CloseConn(xconn[t])
  /\ xconn' = [xconn EXCEPT ![t] = 0]
  /\ pc' = [pc EXCEPT ![t] = "x_lock2"]
  /\ UNCHANGED <<closed, crashed, netConn, client, resp, clientMu, netConnMu, dials,
                 op, err, cli, dialed, primErr, ret, calls, raceOnly,
                 counters, solo, fault, preClosed, preSess, lastFail, prevFail>>
  /\ Touch
  /\ UNCHANGED extra

\* c.clientMu.Lock(); defer c.clientMu.Unlock();
\* if c.client == nil { return }; c.resp = nil; c.client = nil
closeLockClient(t) ==
  /\ At(t, "x_lock2")
  /\ CanLock(clientMu)
  /\ clientMu' = t
  /\ IF client = 0
     THEN /\ pc' = [pc EXCEPT ![t] = "x_unlock"]
          /\ UNCHANGED <<resp, client>>
     ELSE /\ resp' = 0
          /\ client' = 0
          /\ pc' = [pc EXCEPT ![t] = "x_lock3"]
  /\ UNCHANGED <<closed, crashed, netConn, netConnMu, conn, dials,
                 op, err, cli, dialed, xconn, primErr, ret, calls, raceOnly,
                 counters, solo, fault, preClosed, preSess, lastFail, prevFail>>
  /\ Touch
  /\ UNCHANGED extra

\* c.netConnMu.Lock(), with clientMu held
closeLockNetConn2(t) ==
  /\ At(t, "x_lock3")
  /\ CanLock(netConnMu)
  /\ netConnMu' = t
  /\ pc' = [pc EXCEPT ![t] = "x_clear"]
  /\ UNCHANGED <<closed, crashed, netConn, client, resp, clientMu, conn, dials,
                 op, err, cli, dialed, xconn, primErr, ret, observers>>
  /\ UNCHANGED extra

\* close() unlocks without clearing c.netConn
closeClearNetConn_keep(t) ==
  /\ At(t, "x_clear")
  /\ netConnMu' = 0
  /\ pc' = [pc EXCEPT ![t] = "x_unlock"]
  /\ UNCHANGED <<closed, crashed, netConn, client, resp, clientMu, conn, dials,
                 op, err, cli, dialed, xconn, primErr, ret, observers>>
  /\ UNCHANGED extra

\* c.netConn = nil; c.netConnMu.Unlock()
closeClearNetConn(t) ==
  /\ At(t, "x_clear")
  /\ netConn' = 0
  /\ netConnMu' = 0
  /\ pc' = [pc EXCEPT ![t] = "x_unlock"]
  /\ UNCHANGED <<closed, crashed, client, resp, clientMu, conn, dials,
                 op, err, cli, dialed, xconn, primErr, ret, calls, raceOnly,
                 counters, solo, fault, preClosed, preSess, lastFail, prevFail>>
  /\ Touch
  /\ UNCHANGED extra

\* close() returns and Send/Recv go back to connect and try again
closeReturn_retry(t) ==
  /\ At(t, "x_unlock")
  /\ clientMu' = 0
  /\ nClose' = [nClose EXCEPT ![t] = @ + 1]
  /\ IF op[t] = "Close"
     THEN Finish(t, Nil, Nil)
     ELSE /\ pc' = [pc EXCEPT ![t] = "c_chk"]
          /\ UNCHANGED <<ret, lastFail>>
  /\ UNCHANGED <<closed, crashed, netConn, client, resp, netConnMu, conn, dials,
                 op, err, cli, dialed, xconn, primErr, calls, raceOnly,
                 nDial, nPrim, solo, fault, preClosed, preSess, touched, prevFail>>
  /\ UNCHANGED extra

\* the deferred c.clientMu.Unlock(); close() returns and its caller returns
closeReturn(t) ==
  /\ At(t, "x_unlock")
  /\ clientMu' = 0
  /\ nClose' = [nClose EXCEPT ![t] = @ + 1]
  /\ Finish(t, Result(op[t], err[t], primErr[t]), primErr[t])
  /\ UNCHANGED <<closed, crashed, netConn, client, resp, netConnMu, conn, dials,
                 op, err, cli, dialed, xconn, primErr, calls, raceOnly,
                 nDial, nPrim, solo, fault, preClosed, preSess, touched, prevFail>>
  /\ UNCHANGED extra

\* the goroutine leaves the call: its locals and what was observed of the
\* call are dropped
Exit(t) ==
  /\ ~crashed
  /\ pc[t] = "done"
  /\ pc' = [pc EXCEPT ![t] = "idle"]
  /\ op' = [op EXCEPT ![t] = "none"]
  /\ cli' = [cli EXCEPT ![t] = 0]
  /\ primErr' = [primErr EXCEPT ![t] = Nil]
  /\ ret' = [ret EXCEPT ![t] = Nil]
  /\ nDial' = [nDial EXCEPT ![t] = 0]
  /\ nPrim' = [nPrim EXCEPT ![t] = 0]
  /\ nClose' = [nClose EXCEPT ![t] = 0]
  /\ solo' = [solo EXCEPT ![t] = TRUE]
  /\ fault' = [fault EXCEPT ![t] = FALSE]
  /\ preClosed' = [preClosed EXCEPT ![t] = FALSE]
  /\ preSess' = [preSess EXCEPT ![t] = 0]
  /\ touched' = [touched EXCEPT ![t] = FALSE]
  /\ prevFail' = [prevFail EXCEPT ![t] = 0]
  /\ ctxDone' = [ctxDone EXCEPT ![t] = FALSE]
  /\ UNCHANGED <<shared, err, dialed, xconn, calls, raceOnly, lastFail, caught,
                 url, addr>>

\* ---- the program ----

Next ==
  \E t \in Threads :
    \/ Exit(t)
    \/ Connect(t)
    \/ Send(t)
    \/ Recv(t)
    \/ Close(t)
    \/ ConnectCheckClosed(t)
    \/ ConnectLock(t)
    \/ Dial(t)
    \/ SetNetConnLock(t)
    \/ SetNetConn(t)
    \/ NewRequestFails(t)
    \/ WriteRequestFails(t)
    \/ Flush(t)
    \/ ReadResponse(t)
    \/ StatusRejected(t)
    \/ NewDerpClientFails(t)
    \/ Install(t)
    \/ DeferredClose(t)
    \/ ConnectReturn(t)
    \/ SendPrim(t)
    \/ RecvPrim(t)
    \/ CloseCheckClosed(t)
    \/ CloseChan(t)
    \/ closeLockNetConn(t)
    \/ closeReadNetConn(t)
    \/ closeNetConn(t)
    \/ closeLockClient(t)
    \/ closeLockNetConn2(t)
    \/ closeClearNetConn(t)
    \/ closeReturn(t)

\* the Client under concurrent callers
Spec == Init /\ [][Next]_vars

\* Clients for every URL, followed up to the dial
InitAddr == Start /\ url \in Urls

NextAddr ==
  \E t \in Threads :
    \/ Connect(t)
    \/ Send(t)
    \/ Recv(t)
    \/ ConnectCheckClosed(t)
    \/ ConnectLock(t)
    \/ Dial(t)

SpecAddr == InitAddr /\ [][NextAddr]_vars

\* ---- properties ----

Returned(t) == pc[t] = "done"

\* the call of t obtained a session and its primitive returned an error
PrimFailed(t) == nPrim[t] = 1 /\ primErr[t] # Nil

\* C1: a Send whose session's send primitive failed returns that same
\* failure (never nil) and has run the teardown before it returns.
C1_SendReturnsFailure ==
  \A t \in Threads :
    (Returned(t) /\ op[t] = "Send" /\ PrimFailed(t)) =>
      /\ ret[t] = primErr[t]
      /\ nClose[t] = 1
      /\ client # cli[t]

\* C2: a Recv whose session's receive primitive failed returns that same
\* failure and has torn the connection state down when it returns (the failed
\* session is no longer the Client's; with no other call overlapping, both
\* handles and the response are absent and the session's transport is
\* closed); a Recv whose receive succeeded returns nil, runs no teardown and,
\* when it found the session established and ran alone, changes nothing.
C2_RecvFailureTearsDown ==
  \A t \in Threads :
    (Returned(t) /\ op[t] = "Recv" /\ nPrim[t] = 1) =>
      IF primErr[t] # Nil
      THEN /\ ret[t] = primErr[t]
           /\ nClose[t] = 1
           /\ client = 0
           /\ solo[t] => (netConn = 0 /\ resp = 0 /\ conn[cli[t]] = "closed")
      ELSE /\ ret[t] = Nil
           /\ nClose[t] = 0
           /\ (solo[t] /\ preSess[t] # 0) => ~touched[t]

\* a Recv that ran alone has returned the failure of its receive primitive
C2_Witness ==
  \E t \in Threads :
    /\ Returned(t) /\ op[t] = "Recv" /\ PrimFailed(t)
    /\ solo[t] /\ ret[t] = RecvErr /\ conn[cli[t]] = "closed"

\* C3: the closed flag is never unset, and a call that starts once the flag
\* is set (so, after any Close that returned nil) never gets past its check
\* of the flag: it starts no dial, no handshake, no send/receive and no
\* teardown, and it returns ErrClientClosed.
C3_CloseIsTerminal ==
  [][ /\ closed => closed'
      /\ \A t \in Threads :
           preClosed'[t] =>
             /\ closed'
             /\ pc'[t] \in {"c_chk", "cl_chk", "done"}
             /\ nDial'[t] = 0 /\ nPrim'[t] = 0 /\ nClose'[t] = 0
             /\ Returned(t)' => ret'[t] = ErrClientClosed ]_vars

\* a Send that started on a closed Client whose transport handle was still
\* set has returned ErrClientClosed
C3_Witness ==
  \E t \in Threads :
    /\ Returned(t) /\ preClosed[t] /\ op[t] = "Send"
    /\ ret[t] = ErrClientClosed /\ netConn # 0

\* C4: at most one dial/handshake sequence is in progress at any time; and
\* while every call so far is a Connect and nothing has failed, the Client
\* has dialed at most once and every Connect that returns returns nil with
\* the one session that dial produced.
C4_ConnectMutualExclusion ==
  /\ Cardinality({t \in Threads : Connecting(t)}) <= 1
  /\ raceOnly =>
       /\ dials <= 1
       /\ \A t \in Threads :
            Returned(t) =>
              /\ ret[t] = Nil
              /\ dials = 1
              /\ cli[t] = 1 /\ client = 1 /\ netConn = 1

\* a Connect that raced another Connect returns the session the other dialed
C4_Witness ==
  \E t \in Threads :
    /\ raceOnly /\ Returned(t) /\ ~solo[t]
    /\ nDial[t] = 0 /\ cli[t] = 1 /\ ret[t] = Nil

\* C5: a Connect made while the Client holds an established session and is
\* not closed, with no other call overlapping it, returns nil without dialing
\* and leaves the transport handle, the session handle and the stored
\* response as they were (nothing another goroutine can see has changed).
C5_ConnectIdempotent ==
  \A t \in Threads :
    (Returned(t) /\ op[t] = "Connect" /\ solo[t] /\ preSess[t] # 0 /\ ~preClosed[t]) =>
      /\ ret[t] = Nil
      /\ nDial[t] = 0
      /\ cli[t] = preSess[t]
      /\ client = preSess[t] /\ netConn = preSess[t] /\ resp = preSess[t]
      /\ ~touched[t]

\* a Connect on a connected Client has returned
C5_Witness ==
  \E t \in Threads :
    /\ Returned(t) /\ op[t] = "Connect" /\ solo[t] /\ preSess[t] # 0 /\ ~preClosed[t]
    /\ ret[t] = Nil /\ client = preSess[t]

\* the call of t is the next call after a call whose send/receive failed on
\* an established session: it started when that call had returned, no call
\* was in progress and the Client was not closed, and no call overlapped it
NextAfterFailure(t) ==
  /\ op[t] \in {"Connect", "Send", "Recv"}
  /\ prevFail[t] # 0
  /\ solo[t]
  /\ ~preClosed[t]

\* C6: the next call after a failed Send or Recv dials afresh (exactly once)
\* and, when none of its steps fails, returns nil on a session that is not
\* the failed one, is the Client's session and has an open transport.
C6_SelfHealing ==
  \A t \in Threads :
    (Returned(t) /\ NextAfterFailure(t)) =>
      /\ nDial[t] = 1
      /\ ~fault[t] =>
           /\ ret[t] = Nil
           /\ cli[t] # 0 /\ cli[t] # prevFail[t]
           /\ client = cli[t] /\ netConn = cli[t]
           /\ conn[cli[t]] = "open"

\* a Send after a failed call has reconnected and sent
C6_Witness ==
  \E t \in Threads :
    /\ Returned(t) /\ NextAfterFailure(t) /\ op[t] = "Send" /\ ~fault[t]
    /\ nPrim[t] = 1 /\ ret[t] = Nil /\ cli[t] # prevFail[t]

\* C7: a single call starts at most one dial/handshake sequence and invokes
\* the session's send/receive primitive at most once, also when a step fails.
C7_NoAutoRetry ==
  \A t \in Threads : nDial[t] <= 1 /\ nPrim[t] <= 1

\* a call has dialed, failed in its primitive, torn down and returned
C7_Witness ==
  \E t \in Threads :
    Returned(t) /\ fault[t] /\ nDial[t] = 1 /\ nPrim[t] = 1 /\ nClose[t] = 1

\* the call of t returned the error of its connection attempt, which had
\* dialed
AttemptFailed(t) ==
  /\ Returned(t) /\ op[t] \in {"Connect", "Send", "Recv"}
  /\ nDial[t] = 1 /\ nPrim[t] = 0 /\ ret[t] # Nil

\* C8: a connection attempt that fails retains nothing: when it returns (no
\* other call overlapping) both handles are absent; and whenever no call is
\* in progress the two handles are both set or both absent.
C8_FailedAttemptRetainsNothing ==
  /\ \A t \in Threads :
       (AttemptFailed(t) /\ solo[t]) => (netConn = 0 /\ client = 0)
  /\ Quiet => ((netConn = 0) <=> (client = 0))

\* C9: when a connection attempt that opened a raw transport has failed, at
\* whatever stage, that transport is closed before connect unlocks and hands
\* the error to its caller.
C9_FailedAttemptClosesTransport ==
  \A t \in Threads :
    (pc[t] = "c_unlock" /\ err[t] # Nil /\ dialed[t] # 0) =>
      conn[dialed[t]] = "closed"

\* an attempt rejected with a status other than 101 is about to return its
\* error, its transport closed
C9_Witness ==
  \E t \in Threads :
    /\ pc[t] = "c_unlock" /\ dialed[t] # 0
    /\ err[t] = WrapErr(op[t], GetFailedErr)
    /\ conn[dialed[t]] = "closed"

\* C10: with no other call in progress, the first Close returns nil, leaves
\* the session's transport closed and both handles absent; a later Close
\* returns ErrClientClosed and changes nothing.
C10_CloseOneShot ==
  \A t \in Threads :
    (Returned(t) /\ op[t] = "Close" /\ solo[t]) =>
      IF preClosed[t]
      THEN ret[t] = ErrClientClosed /\ ~touched[t] /\ nClose[t] = 0
      ELSE /\ ret[t] = Nil
           /\ closed
           /\ preSess[t] # 0 => conn[preSess[t]] = "closed"
           /\ netConn = 0 /\ client = 0

\* the program points of close() when Close runs it
InTeardown(t) ==
  pc[t] \in {"x_lock1", "x_read", "x_close", "x_lock2", "x_lock3", "x_clear", "x_unlock"}

\* a Close call has returned nil: the channel is closed (only "close(c.closed)"
\* in Close closes it) and the Close that closed it has left close()
CloseReturned ==
  closed /\ \A t \in Threads : ~(op[t] = "Close" /\ InTeardown(t))

\* C11: once a Close has returned, no call, also one that had already
\* started, opens a transport or installs a session, so the session handle is
\* absent in every state after Close returned.
C11_InFlightObserveClosure ==
  [][ CloseReturned =>
        /\ dials' = dials
        /\ client' = 0 ]_vars

\* C12: when c.closed was closed while a connection attempt was in progress
\* (inside the dial or the handshake), the Close has closed the transport of
\* that attempt by the time it returns, so the attempt never ends up with an
\* established session on a transport that nobody closed.
C12_CloseInterruptsAttempt ==
  (caught \in Conns /\ CloseReturned) => conn[caught] = "closed"

\* C13: a Connect whose ctx is already cancelled when it is called never
\* dials and returns an error, and its attempt installs no session.
C13_CancellationHonoured ==
  \A t \in Threads :
    (ctxDone[t] /\ op[t] = "Connect") =>
      /\ nDial[t] = 0
      /\ Returned(t) => ret[t] # Nil

\* C14: when a Send that ran alone has failed in the send primitive and its
\* teardown has completed, the transport handle and the session handle are
\* both absent and the transport of the failed session is closed.
C14_SendFailureClearsBoth ==
  \A t \in Threads :
    (Returned(t) /\ op[t] = "Send" /\ PrimFailed(t) /\ solo[t]) =>
      /\ nClose[t] = 1
      /\ netConn = 0 /\ client = 0
      /\ conn[cli[t]] = "closed"

\* a Send that found the session established has failed and returned, with
\* both handles absent
C14_Witness ==
  \E t \in Threads :
    /\ Returned(t) /\ op[t] = "Send" /\ PrimFailed(t) /\ solo[t]
    /\ preSess[t] # 0 /\ cli[t] = preSess[t]
    /\ netConn = 0 /\ client = 0

\* goroutine t takes the step from program point p
Steps(t, p) == pc[t] = p /\ pc'[t] # p

\* goroutine t is entitled to end session s: it runs Close, or it runs the
\* teardown of a Send/Recv whose primitive failed on s itself
MayEnd(t, s) == op[t] = "Close" \/ (primErr[t] # Nil /\ cli[t] = s)

\* C15: an installed session stays the Client's session, on an open
\* transport, until a Send/Recv on that very session fails or Close is
\* called: a step that removes the session handle or closes the session's
\* transport is a step of Close or of the teardown of a failure on it.
C15_SessionStability ==
  [][ client # 0 =>
        /\ client' # client =>
             \E t \in Threads : Steps(t, "x_lock2") /\ MayEnd(t, client)
        /\ (conn[client] = "open" /\ conn'[client] # "open") =>
             \E t \in Threads : Steps(t, "x_close") /\ MayEnd(t, client) ]_vars

\* goroutine t is at c.clientMu.Lock() / at c.netConnMu.Lock()
WaitsClientMu(t) == pc[t] \in {"c_lock", "x_lock2"}
WaitsNetConnMu(t) == pc[t] \in {"c_setlock", "x_lock1", "x_lock3"}

\* goroutine t is at a Lock() of a mutex that is held
Blocked(t) ==
  \/ WaitsClientMu(t) /\ ~CanLock(clientMu)
  \/ WaitsNetConnMu(t) /\ ~CanLock(netConnMu)

\* no goroutine is at c.clientMu.Lock() while it holds c.netConnMu, and the
\* holder of c.netConnMu is between its Lock and Unlock, waiting for nothing
LockOrder ==
  /\ \A t \in Threads : WaitsClientMu(t) => netConnMu # t
  /\ netConnMu # 0 => pc[netConnMu] \in {"c_set", "x_read", "x_clear"}
  /\ clientMu # 0 => (Active(clientMu) /\ ~WaitsClientMu(clientMu))

\* while the process runs, some call in progress can take a step
NoDeadlock ==
  (~crashed /\ \E t \in Threads : Active(t)) =>
    \E t \in Threads : Active(t) /\ ~Blocked(t)

\* goroutine t takes a step inside a critical section of mutex mu: it holds
\* mu before the step (and may unlock in it) or locks mu in it
StepsHolding(t, mu) == pc'[t] # pc[t] /\ (mu = t \/ mu' = t)

\* c.netConn is written by the holder of c.netConnMu, c.client and c.resp by
\* the holder of c.clientMu
WrittenUnderLock ==
  /\ netConn' # netConn =>
       \E t \in Threads : StepsHolding(t, netConnMu)
  /\ (client' # client \/ resp' # resp) =>
       \E t \in Threads : StepsHolding(t, clientMu)

\* C16: no call waits for clientMu while holding netConnMu, the handles are
\* written only by the holder of their lock, and no reachable state has the
\* calls in progress all waiting on the locks.
C16_LockOrderNoDeadlock ==
  [](LockOrder /\ NoDeadlock) /\ [][WrittenUnderLock]_vars

\* a teardown holding clientMu is at c.netConnMu.Lock() while another
\* goroutine holds netConnMu
C16_Witness ==
  \E t, u \in Threads :
    /\ pc[t] = "x_lock3" /\ clientMu = t
    /\ u # t /\ netConnMu = u

\* C17: a caller inside the session's send or receive primitive holds neither
\* c.clientMu nor c.netConnMu, so it keeps no other call from its own
\* primitive or from the locks: the Client does not serialize the transfer.
C17_TransferNotSerialized ==
  \A t \in Threads :
    pc[t] = "prim" => (clientMu # t /\ netConnMu # t)

\* while a Recv is inside client.Recv on a session, another goroutine's Send
\* has called client.Send on the same session and returned nil
C17_Witness ==
  \E t, u \in Threads :
    /\ pc[t] = "prim" /\ op[t] = "Recv"
    /\ Returned(u) /\ op[u] = "Send" /\ nPrim[u] = 1
    /\ cli[u] = cli[t] /\ ret[u] = Nil /\ primErr[u] = Nil

\* the address the dial is specified to use: for https the host name joined
\* with the explicit port, or with 443 when there is none; else host[:port]
\* as given
SpecifiedAddress(u) ==
  IF u.scheme = "https"
  THEN <<u.host, ":", IF u.port = "" THEN "443" ELSE u.port>>
  ELSE HostField(u)

\* C18: whatever the URL, the address handed to the dialer is the specified
\* one.
C18_DialAddress ==
  addr # Nil => addr = SpecifiedAddress(url)

\* a Close call of goroutine t has returned
CloseDone(t) == Returned(t) /\ op[t] = "Close"

\* C19: Close calls running concurrently never crash the process (c.closed
\* is closed at most once), and of those that have returned at most one
\* returned nil, every other ErrClientClosed.
C19_ConcurrentCloseSafe ==
  /\ ~crashed
  /\ \A t \in Threads : CloseDone(t) => ret[t] \in {Nil, ErrClientClosed}
  /\ \A t, u \in Threads :
       (t # u /\ CloseDone(t) /\ CloseDone(u)) => (ret[t] # Nil \/ ret[u] # Nil)

\* transport k is open and is not the transport of the Client's live session
Leaked(k) == conn[k] = "open" /\ ~(netConn = k /\ client = k)

\* C20: whenever no call is in progress, every transport the Client opened
\* is closed or is the one the transport handle names together with a live
\* session; and once Close has returned and no call is in progress, every
\* transport the Client opened is closed.
C20_NoLeakedTransport ==
  Quiet =>
    /\ \A k \in Conns : ~Leaked(k)
    /\ CloseReturned => \A k \in Conns : conn[k] # "open"

====
